---- MODULE Spec2Model ----
(***************************************************************************)
(* Model of the editable surface (src/components/TextInput.tsx) and the    *)
(* metrics panel (src/components/ResultMetrics.tsx).                       *)
(*                                                                         *)
(* A JavaScript string is a sequence of one-character strings.  Any other *)
(* JavaScript value is a record tagged by t: a number is an exact rational *)
(* [num, den] in lowest terms (IEEE rounding is not modelled), NaN or      *)
(* Infinity; undefined and null are values of their own.  The surface's    *)
(* innerHTML is kept as the string the handlers write: the contents        *)
(* enumerated are ones the browser serialises back unchanged.              *)
(***************************************************************************)
EXTENDS Integers, Sequences, FiniteSets

(***************************************************************************)
(* Bounds of the model.                                                    *)
(***************************************************************************)
\* number of clicks on the Verify button in one behaviour
MaxSubmits == 2
\* number of paste / keystroke events in one behaviour
MaxEdits == 1
\* number of segments of the surface that paste and keystrokes build up to
MaxSegments == 2

(***************************************************************************)
(* Strings.                                                                *)
(***************************************************************************)
BR == <<"<", "b", "r", ">">>

SPAN_CLOSE == <<"<", "/", "s", "p", "a", "n", ">">>

Lower ==
  {"a", "b", "c", "d", "e", "f", "g", "h", "i", "j", "k", "l", "m",
   "n", "o", "p", "q", "r", "s", "t", "u", "v", "w", "x", "y", "z"}

Upper ==
  {"A", "B", "C", "D", "E", "F", "G", "H", "I", "J", "K", "L", "M",
   "N", "O", "P", "Q", "R", "S", "T", "U", "V", "W", "X", "Y", "Z"}

\* [a-z] under the i flag
IsLetter(c) == c \in Lower \cup Upper

Digit(d) == <<"0", "1", "2", "3", "4", "5", "6", "7", "8", "9">>[d + 1]

\* Number.prototype.toString for a non-negative integer
RECURSIVE NumToString(_)
NumToString(i) ==
  IF i < 10 THEN <<Digit(i)>> ELSE NumToString(i \div 10) \o <<Digit(i % 10)>>

\* s.substring(p - 1, p - 1 + Len(t)) === t, with p counted from 1
StartsAt(s, p, t) ==
  /\ p + Len(t) - 1 <= Len(s)
  /\ \A k \in 1..Len(t) : s[p + k - 1] = t[k]

\* the least element of a non-empty set of integers
Min(S) == CHOOSE x \in S : \A y \in S : x <= y

\* the greatest element of a non-empty set of integers
Max(S) == CHOOSE x \in S : \A y \in S : x >= y

\* index of the first occurrence of t in s at or after p, 0 when none
IndexOf(s, t, p) ==
  LET at == {i \in p..Len(s) : StartsAt(s, i, t)}
  IN  IF at = {} THEN 0 ELSE Min(at)

\* index of the last occurrence of t in s at or before p, 0 when none
LastIndexOf(s, t, p) ==
  LET at == {i \in 1..p : StartsAt(s, i, t)}
  IN  IF at = {} THEN 0 ELSE Max(at)

\* number of (non-overlapping, left to right) occurrences of t in s
RECURSIVE CountFrom(_, _, _)
CountFrom(s, p, t) ==
  LET q == IndexOf(s, t, p)
  IN  IF q = 0 THEN 0 ELSE 1 + CountFrom(s, q + Len(t), t)

Count(s, t) == CountFrom(s, 1, t)

\* index of the first ">" at or after p, 0 when there is none
FirstGt(s, p) == IndexOf(s, <<">">>, p)

\* the (?!br\s*\/?) lookahead at p fails exactly when "br" (any case) is there
LookaheadBr(s, p) ==
  /\ p + 1 <= Len(s)
  /\ s[p] \in {"b", "B"}
  /\ s[p + 1] \in {"r", "R"}

\* End of the match of /<(?!br\s*\/?)[a-z][^>]*>|<\/(?!br\s*\/?)[a-z][^>]*>/i
\* that starts at p, 0 when the pattern does not match at p.
TagMatchEnd(s, p) ==
  IF s[p] # "<" THEN 0
  ELSE LET q == IF p + 1 <= Len(s) /\ s[p + 1] = "/" THEN p + 2 ELSE p + 1
       IN  IF /\ q <= Len(s)
              /\ IsLetter(s[q])
              /\ ~LookaheadBr(s, q)
           THEN FirstGt(s, q + 1)
           ELSE 0

\* the text from p on with every match of the pattern removed, left to right
RECURSIVE StripFrom(_, _)
StripFrom(s, p) ==
  LET matches == {i \in p..Len(s) : TagMatchEnd(s, i) > 0}
  IN  IF matches = {} THEN SubSeq(s, p, Len(s))
      ELSE LET q == Min(matches)
           IN  SubSeq(s, p, q - 1) \o StripFrom(s, TagMatchEnd(s, q) + 1)

\* a strip that removes nothing
StripNothing(s) == s

\* input.replace(/<(?!br\s*\/?)[a-z][^>]*>|<\/(?!br\s*\/?)[a-z][^>]*>/gi, '')
StripTags(s) == StripFrom(s, 1)

RECURSIVE SplitFrom(_, _)
SplitFrom(s, p) ==
  LET q == IndexOf(s, BR, p)
  IN  IF q = 0 THEN <<SubSeq(s, p, Len(s))>>
      ELSE <<SubSeq(s, p, q - 1)>> \o SplitFrom(s, q + Len(BR))

\* a split that keeps no empty segment
SplitDroppingEmpty(s) ==
  LET NonEmpty(segment) == segment # <<>>
  IN  SelectSeq(SplitFrom(s, 1), NonEmpty)

\* input.split('<br>')
Split(s) == SplitFrom(s, 1)

\* input ? input.split('<br>') : []
Segments(input) == IF input = <<>> THEN <<>> ELSE Split(input)

RECURSIVE JoinFrom(_, _)
JoinFrom(parts, k) ==
  IF k > Len(parts) THEN <<>>
  ELSE IF k = Len(parts) THEN parts[k]
  ELSE parts[k] \o BR \o JoinFrom(parts, k + 1)

\* replaceMentTexts.join('<br>')
Join(parts) == JoinFrom(parts, 1)

\* text.replace(/\n/g, '<br>')
RECURSIVE ReplaceNewlines(_)
ReplaceNewlines(text) ==
  IF text = <<>> THEN <<>>
  ELSE (IF Head(text) = "\n" THEN BR ELSE <<Head(text)>>)
         \o ReplaceNewlines(Tail(text))

SpanOpen(i) ==
  <<"<", "s", "p", "a", "n", " ", "i", "d", "=", "\"">> \o NumToString(i)
    \o <<"\"", " ", "c", "l", "a", "s", "s", "=", "\"",
         "b", "o", "r", "d", "e", "r", "-", "b", "-", "2", " ",
         "b", "o", "r", "d", "e", "r", "-", "r", "e", "d", "-", "4", "0", "0",
         "\"", ">">>

\* `<span id="${i}" class="border-b-2 border-red-400">${text}</span>`
Highlight(i, text) == SpanOpen(i) \o text \o SPAN_CLOSE

(***************************************************************************)
(* JavaScript values.  Every value is a record tagged by t, so that values *)
(* of different kinds can be compared.                                     *)
(***************************************************************************)
UNDEFINED == [t |-> "undefined"]

NULL == [t |-> "null"]

NaN == [t |-> "NaN"]

Infinity == [t |-> "Infinity"]

RECURSIVE Gcd(_, _)
Gcd(a, b) == IF b = 0 THEN a ELSE Gcd(b, a % b)

\* the number n / d, d > 0, n >= 0, in lowest terms
Rat(n, d) ==
  LET g == Gcd(n, d) IN [t |-> "num", num |-> n \div g, den |-> d \div g]

Zero == Rat(0, 1)

IsRat(x) == x.t = "num"

\* a + b
Plus(a, b) ==
  IF a = NaN \/ b = NaN THEN NaN
  ELSE IF a = Infinity \/ b = Infinity THEN Infinity
  ELSE Rat(a.num * b.den + b.num * a.den, a.den * b.den)

\* a / k for an integer k >= 0
DivideBy(a, k) ==
  IF a = NaN THEN NaN
  ELSE IF a = Infinity THEN Infinity
  ELSE IF k = 0 THEN (IF a.num = 0 THEN NaN ELSE Infinity)
  ELSE Rat(a.num, a.den * k)

\* a * k for an integer k > 0
Times(a, k) ==
  IF a \in {NaN, Infinity} THEN a ELSE Rat(a.num * k, a.den)

\* a >= b
GreaterOrEqual(a, b) ==
  /\ IsRat(a)
  /\ IsRat(b)
  /\ a.num * b.den >= b.num * a.den

\* a > b
GreaterThan(a, b) ==
  /\ IsRat(a)
  /\ IsRat(b)
  /\ a.num * b.den > b.num * a.den

\* x || 0
OrZero(x) == IF IsRat(x) /\ x # Zero THEN x ELSE Zero

\* !x
Falsy(x) == x.t \in {"undefined", "null"}

(***************************************************************************)
(* Verification results (InputTextResult) as the endpoint may return them. *)
(***************************************************************************)
Score(g, h) == [t |-> "obj", gpt |-> Rat(g, 10), human |-> Rat(h, 10)]

Metrics(c, r, p, o) ==
  [t |-> "obj", coherence |-> Rat(c, 10), repetition |-> Rat(r, 10),
   personality |-> Rat(p, 10), originality |-> Rat(o, 10)]

Details(items) == [t |-> "arr", items |-> items]

Result(id, score, metrics, details) ==
  [t |-> "obj", id |-> id, score |-> score, metrics |-> metrics,
   details |-> details]

\* gpt > human, one detail
R_AI == Result(<<"9">>, Score(8, 2), Metrics(5, 3, 2, 4), Details(<<"d">>))

\* gpt < human, no details
R_HUMAN == Result(<<"9">>, Score(2, 8), Metrics(1, 1, 1, 1), Details(<<>>))

\* gpt = human, one detail
R_EVEN == Result(<<"9">>, Score(5, 5), Metrics(2, 6, 4, 8), Details(<<"d">>))

\* a body without score
R_NOSCORE == Result(<<"9">>, UNDEFINED, Metrics(5, 3, 2, 4), Details(<<"d">>))

\* a body without details
R_NODETAILS == Result(<<"9">>, Score(8, 2), Metrics(5, 3, 2, 4), UNDEFINED)

\* a body without metrics
R_NOMETRICS == Result(<<"9">>, Score(8, 2), UNDEFINED, Details(<<"d">>))

\* result.json() rejects
UNPARSABLE == [t |-> "unparsable"]

\* what `await result.json()` can produce for a fetched response
Bodies ==
  <<R_AI, R_HUMAN, R_EVEN, NULL, R_NOSCORE, R_NODETAILS, R_NOMETRICS,
    UNPARSABLE>>

(***************************************************************************)
(* The steps of the second .then callback of handleSubmit as functions of  *)
(* the closure's texts and of the parsed results.                          *)
(***************************************************************************)
\* inputTextResult.score.gpt throws for some result that is not skipped
ThrowsInLoop(inputTextResults) ==
  \E k \in 1..Len(inputTextResults) :
    /\ ~Falsy(inputTextResults[k])
    /\ inputTextResults[k].score = UNDEFINED

\* inputTextResult.score.gpt > inputTextResult.score.human
IsFlagged(inputTextResult) ==
  /\ ~Falsy(inputTextResult)
  /\ GreaterThan(inputTextResult.score.gpt, inputTextResult.score.human)

\* a replacement buffer built from the filtered results: no entry for a
\* position without a result
ReplaceMentTextsFiltered(texts, inputTextResults) ==
  LET HasResult(k) ==
        k <= Len(inputTextResults) /\ ~Falsy(inputTextResults[k])
      kept == SelectSeq([k \in 1..Len(texts) |-> k], HasResult)
  IN  [j \in 1..Len(kept) |->
         IF IsFlagged(inputTextResults[kept[j]])
         THEN Highlight(kept[j] - 1, texts[kept[j]])
         ELSE texts[kept[j]]]

\* replaceMentTexts after the loop over inputTextResults
ReplaceMentTexts(texts, inputTextResults) ==
  [k \in 1..Len(texts) |->
     IF k <= Len(inputTextResults) /\ IsFlagged(inputTextResults[k])
     THEN Highlight(k - 1, texts[k])
     ELSE texts[k]]

\* the id left as the endpoint returned it
StampIdKept(inputTextResult, i) == inputTextResult

\* inputTextResults[i].id = i.toString()
StampId(inputTextResult, i) == [inputTextResult EXCEPT !.id = NumToString(i)]

\* inputTextResults after the loop
Stamped(inputTextResults) ==
  [k \in 1..Len(inputTextResults) |->
     IF Falsy(inputTextResults[k]) THEN inputTextResults[k]
     ELSE StampId(inputTextResults[k], k - 1)]

IsTruthy(inputTextResult) == ~Falsy(inputTextResult)

\* inputTextResults.filter((inputTextResult) => inputTextResult)
Filtered(inputTextResults) == SelectSeq(inputTextResults, IsTruthy)

\* result.details.length (result.details is defined)
Contributes(result) == result.details.items # <<>>

\* result.details.length or result.metrics.coherence throws in the forEach
ThrowsInForEach(filtered) ==
  \E k \in 1..Len(filtered) :
    \/ filtered[k].details = UNDEFINED
    \/ /\ Contributes(filtered[k])
       /\ filtered[k].metrics = UNDEFINED

RECURSIVE SumSeq(_, _)
SumSeq(numbers, k) ==
  IF k > Len(numbers) THEN Zero
  ELSE Plus(numbers[k], SumSeq(numbers, k + 1))

\* result.score.gpt, result.score.human or result.metrics[field]
Pick(result, field) ==
  IF field \in {"gpt", "human"} THEN result.score[field]
  ELSE result.metrics[field]

\* the sum, over the results whose details are not empty, of the field || 0
SumOver(filtered, field) ==
  LET contributing == SelectSeq(filtered, Contributes)
  IN  SumSeq([k \in 1..Len(contributing) |->
                OrZero(Pick(contributing[k], field))], 1)

RECURSIVE ErrorTextCount(_, _)
ErrorTextCount(filtered, k) ==
  IF k > Len(filtered) THEN 0
  ELSE (IF Contributes(filtered[k]) THEN 1 ELSE 0)
         + ErrorTextCount(filtered, k + 1)

\* (overallMetrics.x / inputTextResults.length) * 10
SubMetricOverAll(filtered, field) ==
  Times(DivideBy(SumOver(filtered, field), Len(filtered)), 10)

\* (overallMetrics.x / overallMetrics.errorTextCount) * 10
SubMetric(filtered, field) ==
  Times(DivideBy(SumOver(filtered, field), ErrorTextCount(filtered, 1)), 10)

\* (overallXScore / inputTextResults.length) * 100
Overall(filtered, field) ==
  Times(DivideBy(SumOver(filtered, field), Len(filtered)), 100)

OverallMetrics(filtered) ==
  [coherence |-> SubMetric(filtered, "coherence"),
   repetition |-> SubMetric(filtered, "repetition"),
   personality |-> SubMetric(filtered, "personality"),
   originality |-> SubMetric(filtered, "originality"),
   errorTextCount |-> ErrorTextCount(filtered, 1)]

\* the rating passed to updateUserDocument
Rating(filtered) ==
  [gpt |-> Overall(filtered, "gpt"),
   human |-> Overall(filtered, "human"),
   metrics |-> OverallMetrics(filtered)]

(***************************************************************************)
(* Helpers of the input handler.                                           *)
(***************************************************************************)
\* s with the n elements from p on removed
Remove(s, p, n) == SubSeq(s, 1, p - 1) \o SubSeq(s, p + n, Len(s))

\* s with t inserted before position p
Insert(s, p, t) == SubSeq(s, 1, p - 1) \o t \o SubSeq(s, p, Len(s))

SPAN_NAME == <<"s", "p", "a", "n">>

\* [\sa-z=\-0-9"] under the i flag
IsSpanAttrChar(c) ==
  \/ IsLetter(c)
  \/ c \in {" ", "\n", "=", "-", "\""}
  \/ c \in {"0", "1", "2", "3", "4", "5", "6", "7", "8", "9"}

\* [\sa-z=\-0-9"]*> matches at p
SpanTail(s, p) ==
  LET gt == FirstGt(s, p)
  IN  /\ gt > 0
      /\ \A i \in p..(gt - 1) : IsSpanAttrChar(s[i])

\* text.match(/<\/?span[\sa-z=\-0-9"]*>/gi)
MatchesSpan(text) ==
  \E p \in 1..Len(text) :
    /\ text[p] = "<"
    /\ LET q == IF p + 1 <= Len(text) /\ text[p + 1] = "/" THEN p + 2
                ELSE p + 1
       IN  /\ StartsAt(text, q, SPAN_NAME)
           /\ SpanTail(text, q + Len(SPAN_NAME))

BORDER_B_2 == <<"b", "o", "r", "d", "e", "r", "-", "b", "-", "2", " ">>

\* paragraphElement.classList.remove('border-b-2') on the span that ends at
\* the closing tag at closeAt
RemoveBorderClass(html, closeAt) ==
  LET openAt == LastIndexOf(html, <<"<">> \o SPAN_NAME, closeAt)
      tagEnd == FirstGt(html, openAt)
      at == IndexOf(html, BORDER_B_2, openAt)
  IN  IF openAt > 0 /\ at > 0 /\ at < tagEnd
      THEN Remove(html, at, Len(BORDER_B_2))
      ELSE html

(***************************************************************************)
(* State.                                                                  *)
(***************************************************************************)
VARIABLES
  innerHTML,     \* textInputRef.current.innerHTML, the editable surface
  mounted,       \* textInputRef.current is not null
  userDocument,  \* the Document: content, rating, results
  isLoading,     \* the loading flag of the AppContext
  results,       \* the results collection of the AppContext
  subs,          \* the handleSubmit calls made so far, with their closures
                 \* and whether the surface was edited since the call
  edits,         \* number of paste / keystroke events so far
  last,          \* the step the Editable Surface took last, when it was a
                 \* paste or a settling step (completion or catch)
  panel          \* what the Metrics Panel rendered last

vars ==
  <<innerHTML, mounted, userDocument, isLoading, results, subs, edits, last,
    panel>>

\* savedDocument?.content || ''
SavedContents ==
  { <<>>,
    <<"a">>,
    <<"a">> \o BR \o <<"b">>,
    BR \o <<"b">>,
    Highlight(0, <<"a">>) \o BR \o <<"b">>,
    <<"<", "b", ">", "a", "<", "/", "b", ">">> }

\* event.clipboardData.getData('text/plain'): plain text, which may itself
\* read as markup; the last text is <brx>b</brx>.  Every text here is one the
\* browser serialises back unchanged after `innerHTML += text`.
PasteTexts ==
  << <<"b">>, <<"a", "\n", "b">>, <<"\n">>,
     <<"<", "b", "r", "x", ">", "b", "<", "/", "b", "r", "x", ">">> >>

InitialRating ==
  [gpt |-> Zero, human |-> Zero,
   metrics |-> [coherence |-> Zero, repetition |-> Zero, personality |-> Zero,
                originality |-> Zero, errorTextCount |-> 0]]

\* the step last taken: a settling step (completion or catch) with the
\* closure it ran on, or a paste with the clipboard text as its only text
Step(type, sub, at, closure, rs) ==
  [type |-> type, sub |-> sub, at |-> at, input |-> closure.input,
   texts |-> closure.texts, edited |-> closure.edited,
   wrapped |-> closure.wrapped, rs |-> rs]

\* a submission whose promise chain has settled; its closure is released
Closed(status) ==
  [input |-> <<>>, texts |-> <<>>, calls |-> <<>>, status |-> status,
   edited |-> FALSE, wrapped |-> {}]

NoStep == Step("none", 0, "", Closed(""), <<>>)

\* Number.prototype.toFixed(2) of a value that is not negative
ToFixed2(x) ==
  IF x = NaN THEN <<"N", "a", "N">>
  ELSE IF x = Infinity THEN <<"I", "n", "f", "i", "n", "i", "t", "y">>
  ELSE LET n == (200 * x.num + x.den) \div (2 * x.den)
       IN  NumToString(n \div 100)
             \o <<".", Digit((n \div 10) % 10), Digit(n % 10)>>

\* what TextMetrics returns: the loader, or the overall score and every
\* metric but errorTextCount, each with two decimals
MetricsView(document, loading) ==
  IF loading THEN [t |-> "loader"]
  ELSE [t |-> "scores",
        overall |-> ToFixed2(document.rating.gpt),
        metrics |->
          [coherence |-> ToFixed2(document.rating.metrics.coherence),
           repetition |-> ToFixed2(document.rating.metrics.repetition),
           personality |-> ToFixed2(document.rating.metrics.personality),
           originality |-> ToFixed2(document.rating.metrics.originality)]]

\* React has rendered the Metrics Panel from the current loading flag and
\* Document: it does so before the next event or promise callback runs
Shown == panel = MetricsView(userDocument, isLoading)

\* the surface stays within the bound on its size
Fits(html) == Len(Segments(html)) <= MaxSegments

Init ==
  /\ innerHTML \in SavedContents
  /\ mounted = TRUE
  /\ userDocument =
       [content |-> innerHTML, rating |-> InitialRating, results |-> <<>>]
  /\ isLoading = FALSE
  /\ results = <<>>
  /\ subs = <<>>
  /\ edits = 0
  /\ last = NoStep
  /\ panel = MetricsView(userDocument, isLoading)

(***************************************************************************)
(* Event handlers.                                                         *)
(***************************************************************************)
\* updateUserDocument without the spread of the Document it had
WithContentAlone(document, content) ==
  [content |-> content, rating |-> InitialRating, results |-> <<>>]

\* updateUserDocument({...userDocument, content: ...innerHTML || ''})
WithContent(document, content) == [document EXCEPT !.content = content]

\* the submissions in flight see that the surface was edited under them
Edited(submissions) ==
  [s \in 1..Len(submissions) |->
     IF submissions[s].status \in {"fetching", "parsing"}
     THEN [submissions[s] EXCEPT !.edited = TRUE]
     ELSE submissions[s]]

handlePaste(clip) ==
  /\ Shown
  /\ mounted
  /\ edits < MaxEdits
  /\ LET text == ReplaceNewlines(clip)
     IN  /\ Fits(innerHTML \o text)
         /\ innerHTML' = innerHTML \o text
         /\ userDocument' = WithContent(userDocument, innerHTML')
  /\ edits' = edits + 1
  /\ subs' = Edited(subs)
  /\ last' = Step("paste", 0, "",
                  [input |-> <<>>, texts |-> <<clip>>, edited |-> FALSE,
                   wrapped |-> {}],
                  <<>>)
  /\ UNCHANGED <<mounted, isLoading, results, panel>>

\* The body of handleInput over the surface html the browser has just edited;
\* closeAt is the closing tag of the span holding the selection anchor, or 0
\* when the anchor is not in a span; hasSelection: window.getSelection().
handleInput(html, closeAt, hasSelection) ==
  IF ~hasSelection
  THEN /\ innerHTML' = html
       /\ UNCHANGED userDocument
  ELSE /\ innerHTML' =
            IF MatchesSpan(html) /\ closeAt > 0
            THEN RemoveBorderClass(html, closeAt)
            ELSE html
       /\ userDocument' = WithContent(userDocument, innerHTML')

\* what Backspace deletes with the caret before position at: the line break
\* or the character that ends there, nothing when another tag ends there
Deleted(html, at) ==
  IF at > Len(BR) /\ StartsAt(html, at - Len(BR), BR) THEN Len(BR)
  ELSE IF at > 1 /\ html[at - 1] # ">" THEN 1
  ELSE 0

\* the surface after the browser's default action for the key with the caret
\* before position at: Enter inserts a line break with insertLineBreak,
\* Backspace deletes, any other key inserts its character; filler: the
\* browser leaves a line break in a surface it has emptied
AfterKey(html, key, at, filler) ==
  IF key = "Backspace"
  THEN LET rest == Remove(html, at - Deleted(html, at), Deleted(html, at))
       IN  IF filler THEN BR ELSE rest
  ELSE Insert(html, at, IF key = "Enter" THEN BR ELSE <<key>>)

\* A key pressed with the caret at the end of the surface (inSpan = FALSE) or
\* at the end of the first highlighted span (Backspace only at the end of the
\* surface); the browser edits the surface and then fires the input event.
handleKeyDown(key, inSpan, hasSelection, filler) ==
  /\ Shown
  /\ mounted
  /\ edits < MaxEdits
  /\ LET closeAt == IndexOf(innerHTML, SPAN_CLOSE, 1)
         at == IF inSpan THEN closeAt ELSE Len(innerHTML) + 1
         html == AfterKey(innerHTML, key, at, filler)
     IN  /\ inSpan => closeAt > 0 /\ key # "Backspace"
         /\ key = "Backspace" => Deleted(innerHTML, at) > 0
         /\ filler => key = "Backspace" /\ Deleted(innerHTML, at) = Len(innerHTML)
         /\ Fits(html)
         /\ handleInput(html,
                        IF inSpan
                        THEN closeAt + Len(html) - Len(innerHTML)
                        ELSE 0,
                        hasSelection)
  /\ edits' = edits + 1
  /\ subs' = Edited(subs)
  /\ last' = NoStep
  /\ UNCHANGED <<mounted, isLoading, results, panel>>

\* verifyText without its early return for an empty sentence
verifyTextAlways(textId, sentence) ==
  [t |-> "fetch", state |-> "pending",
   body |-> [id |-> textId, data |-> sentence]]

\* verifyText(textId, sentence): the fetch it returns, or undefined
verifyText(textId, sentence) ==
  IF sentence = <<>> THEN UNDEFINED
  ELSE [t |-> "fetch", state |-> "pending",
        body |-> [id |-> textId, data |-> sentence]]

\* texts.map((text, idx) => verifyText(idx, text))
VerifyTextApiCalls(texts) ==
  [k \in 1..Len(texts) |-> verifyText(k - 1, texts[k])]

IsPending(call) == call # UNDEFINED /\ call.state = "pending"

\* the highlight wrappers on the surface
SPAN_START == <<"<", "s", "p", "a", "n">>

\* the positions of the segments of the surface that hold a highlight wrapper
Wrapped(html) ==
  {k \in 1..Len(Segments(html)) : Count(Segments(html)[k], SPAN_START) > 0}

\* what handleSubmit closes over: input, texts, the calls made for them, and
\* the positions whose highlight wrapper the strip took off the surface
SubmitClosure(html) ==
  LET texts == Segments(StripTags(html))
  IN  [input |-> StripTags(html),
       texts |-> texts,
       calls |-> VerifyTextApiCalls(texts),
       status |-> "fetching",
       edited |-> FALSE,
       wrapped |-> Wrapped(html)]

\* a chain without calls whose aggregate computation throws when no result
\* is left after the filter
SettleAtOnceThrowing(closure) ==
  LET rs == [k \in 1..Len(closure.texts) |-> UNDEFINED]
  IN  /\ innerHTML' = Join(ReplaceMentTexts(closure.texts, rs))
      /\ results' = Filtered(Stamped(rs))
      /\ isLoading' = TRUE
      /\ subs' = Append(subs, Closed("failed"))
      /\ last' = Step("catch", Len(subs) + 1, "forEach", closure, rs)
      /\ UNCHANGED userDocument

\* No call was made: Promise.all resolves with undefined at every position
\* and both .then callbacks run as microtasks of the click, before any other
\* event; the component is mounted, no result is read, nothing throws.
SettleAtOnce(closure) ==
  LET rs == [k \in 1..Len(closure.texts) |-> UNDEFINED]
      filtered == Filtered(Stamped(rs))
  IN  /\ innerHTML' = Join(ReplaceMentTexts(closure.texts, rs))
      /\ results' = filtered
      /\ userDocument' =
           [content |-> innerHTML',
            rating |-> Rating(filtered),
            results |-> filtered]
      /\ isLoading' = FALSE
      /\ subs' = Append(subs, Closed("done"))
      /\ last' = Step("done", Len(subs) + 1, "", closure, rs)

\* handleSubmit persisting the cleaned content when it starts
handleSubmitPersisting ==
  /\ Shown
  /\ mounted
  /\ Len(subs) < MaxSubmits
  /\ LET closure == SubmitClosure(innerHTML)
     IN  IF \E k \in 1..Len(closure.calls) : IsPending(closure.calls[k])
         THEN /\ innerHTML' = StripTags(innerHTML)
              /\ userDocument' = WithContent(userDocument, innerHTML')
              /\ subs' = Append(subs, closure)
              /\ isLoading' = TRUE
              /\ last' = NoStep
              /\ UNCHANGED results
         ELSE SettleAtOnce(closure)
  /\ UNCHANGED <<mounted, edits, panel>>

\* handleSubmit up to Promise.all, and the whole promise chain when no call
\* was made.
handleSubmit ==
  /\ Shown
  /\ mounted
  /\ Len(subs) < MaxSubmits
  /\ LET closure == SubmitClosure(innerHTML)
     IN  IF \E k \in 1..Len(closure.calls) : IsPending(closure.calls[k])
         THEN /\ innerHTML' = StripTags(innerHTML)
              /\ subs' = Append(subs, closure)
              /\ isLoading' = TRUE
              /\ last' = NoStep
              /\ UNCHANGED <<userDocument, results>>
         ELSE SettleAtOnce(closure)
  /\ UNCHANGED <<mounted, edits, panel>>

\* the catch callback of submission s: console.log(error)
Catch(s, at, rs) ==
  /\ subs' = [subs EXCEPT ![s] = Closed("failed")]
  /\ last' = Step("catch", s, at, subs[s], rs)

\* texts and replaceMentTexts kept in one place shared by all submissions
NewestClosure(s) == subs[Len(subs)]

\* the closure of submission s: its texts and replaceMentTexts
Closure(s) == subs[s]

\* a fetch of submission s resolves with a response
FetchResolve(s, k) ==
  /\ Shown
  /\ subs[s].status = "fetching"
  /\ IsPending(subs[s].calls[k])
  /\ subs' = [subs EXCEPT ![s].calls[k].state = "resolved"]
  /\ last' = NoStep
  /\ UNCHANGED <<innerHTML, mounted, userDocument, isLoading, results, edits,
                 panel>>

\* a fetch of submission s rejects: Promise.all rejects, the catch logs
FetchReject(s, k) ==
  /\ Shown
  /\ subs[s].status = "fetching"
  /\ IsPending(subs[s].calls[k])
  /\ Catch(s, "fetch", <<>>)
  /\ UNCHANGED <<innerHTML, mounted, userDocument, isLoading, results, edits,
                 panel>>

\* a first .then callback that runs on the calls settled so far
StartParsePartial(s) ==
  /\ Shown
  /\ subs[s].status = "fetching"
  /\ subs' = [subs EXCEPT ![s].status = "parsing"]
  /\ last' = NoStep
  /\ UNCHANGED <<innerHTML, mounted, userDocument, isLoading, results, edits,
                 panel>>

\* the first .then callback: every fetch has resolved, the bodies are read
StartParse(s) ==
  /\ Shown
  /\ subs[s].status = "fetching"
  /\ \A k \in 1..Len(subs[s].calls) : ~IsPending(subs[s].calls[k])
  /\ subs' = [subs EXCEPT ![s].status = "parsing"]
  /\ last' = NoStep
  /\ UNCHANGED <<innerHTML, mounted, userDocument, isLoading, results, edits,
                 panel>>

\* what Promise.all(inputTextResults) can settle with for calls k..
RECURSIVE ParsedFrom(_, _)
ParsedFrom(calls, k) ==
  IF k > Len(calls) THEN {<<>>}
  ELSE LET heads == IF calls[k] = UNDEFINED THEN <<UNDEFINED>> ELSE Bodies
       IN  {<<heads[h]>> \o rest :
              h \in 1..Len(heads), rest \in ParsedFrom(calls, k + 1)}

ParsedResults(calls) == ParsedFrom(calls, 1)

\* The second .then callback, or the catch when a body does not parse.
Complete(s, rs) ==
  /\ Shown
  /\ subs[s].status = "parsing"
  /\ UNCHANGED <<mounted, edits, panel>>
  /\ IF \E k \in 1..Len(rs) : rs[k] = UNPARSABLE
     THEN /\ Catch(s, "json", <<>>)
          /\ UNCHANGED <<innerHTML, userDocument, isLoading, results>>
     ELSE IF mounted /\ ThrowsInLoop(rs)
     THEN /\ Catch(s, "loop", <<>>)
          /\ UNCHANGED <<innerHTML, userDocument, isLoading, results>>
     ELSE IF ~mounted
     THEN /\ Catch(s, "ref", <<>>)
          /\ UNCHANGED <<innerHTML, userDocument, isLoading, results>>
     ELSE LET filtered == Filtered(Stamped(rs))
          IN  /\ innerHTML' = Join(ReplaceMentTexts(Closure(s).texts, rs))
              /\ results' = filtered
              /\ IF ThrowsInForEach(filtered)
                 THEN /\ Catch(s, "forEach", rs)
                      /\ UNCHANGED <<userDocument, isLoading>>
                 ELSE /\ userDocument' =
                           [content |-> innerHTML',
                            rating |-> Rating(filtered),
                            results |-> filtered]
                      /\ isLoading' = FALSE
                      /\ subs' = [subs EXCEPT ![s] = Closed("done")]
                      /\ last' = Step("done", s, "", subs[s], rs)

\* the component unmounts: React sets textInputRef.current to null
Unmount ==
  /\ Shown
  /\ mounted
  /\ mounted' = FALSE
  /\ last' = NoStep
  /\ UNCHANGED <<innerHTML, userDocument, isLoading, results, subs, edits,
                 panel>>

\* React renders the Metrics Panel again after the loading flag or the
\* Document has changed
TextMetrics ==
  /\ ~Shown
  /\ panel' = MetricsView(userDocument, isLoading)
  /\ UNCHANGED <<innerHTML, mounted, userDocument, isLoading, results, subs,
                 edits, last>>

\* event.key
Keys == <<"c", "Enter", "Backspace">>

Next ==
  \/ \E c \in 1..Len(PasteTexts) : handlePaste(PasteTexts[c])
  \/ \E k \in 1..Len(Keys), inSpan \in BOOLEAN, hasSelection \in BOOLEAN,
          filler \in BOOLEAN :
       handleKeyDown(Keys[k], inSpan, hasSelection, filler)
  \/ handleSubmit
  \/ \E s \in 1..Len(subs) : \E k \in 1..Len(subs[s].calls) : FetchResolve(s, k)
  \/ \E s \in 1..Len(subs) : \E k \in 1..Len(subs[s].calls) : FetchReject(s, k)
  \/ \E s \in 1..Len(subs) : StartParse(s)
  \/ \E s \in 1..Len(subs) :
       \E rs \in ParsedResults(subs[s].calls) : Complete(s, rs)
  \/ Unmount
  \/ TextMetrics

Spec == Init /\ [][Next]_vars

(***************************************************************************)
(* Properties.                                                             *)
(***************************************************************************)
\* the last step re-rendered the surface from the closure in last
Rendered ==
  \/ last.type = "done"
  \/ last.type = "catch" /\ last.at = "forEach"

\* the result at a position says gpt is strictly more than human
MoreGpt(r) ==
  /\ r.t = "obj"
  /\ r.score.gpt.num * r.score.human.den
       > r.score.human.num * r.score.gpt.den

FlaggedPositions == {k \in 1..Len(last.rs) : MoreGpt(last.rs[k])}

\* C1: after a submission of N segments whose N calls all succeeded, the
\* surface has exactly one highlight wrapper per position whose result has
\* gpt > human and none elsewhere; the wrapper of position i has id i and
\* encloses exactly the text of segment i.
C1_OneWrapperPerFlaggedSegment ==
  (/\ Rendered
   /\ \A k \in 1..Len(last.rs) : last.rs[k] # UNDEFINED)
  => LET segs == Segments(innerHTML)
     IN  /\ Len(segs) = Len(last.texts)
         /\ \A k \in 1..Len(segs) :
              segs[k] = IF k \in FlaggedPositions
                        THEN SpanOpen(k - 1) \o last.texts[k] \o SPAN_CLOSE
                        ELSE last.texts[k]
         /\ Count(innerHTML, SPAN_START) = Cardinality(FlaggedPositions)
         /\ Count(innerHTML, SPAN_CLOSE) = Cardinality(FlaggedPositions)

\* a completion over two segments, the second flagged, the first with
\* gpt equal to human
C1_Witness ==
  /\ last.type = "done"
  /\ Len(last.rs) = 2
  /\ last.rs[1] = R_EVEN
  /\ last.rs[2] = R_AI
  /\ Count(innerHTML, SPAN_START) = 1

\* the submissions whose calls are out
InFlight == {s \in 1..Len(subs) : subs[s].status \in {"fetching", "parsing"}}

\* C2: a submission issues exactly one call per non-empty segment, with the
\* segment's index as id and its text as data, and none for an empty
\* segment; after completion an empty segment has no entry in the filtered
\* results and still holds its position in the surface.
C2_OneCallPerNonEmptySegment ==
  /\ \A s \in InFlight :
       /\ Len(subs[s].calls) = Len(subs[s].texts)
       /\ \A k \in 1..Len(subs[s].texts) :
            IF subs[s].texts[k] = <<>>
            THEN subs[s].calls[k] = UNDEFINED
            ELSE /\ subs[s].calls[k] # UNDEFINED
                 /\ subs[s].calls[k].body =
                      [id |-> k - 1, data |-> subs[s].texts[k]]
  /\ last.type = "done" =>
       /\ Len(Segments(innerHTML)) = Len(last.texts)
       /\ \A k \in 1..Len(last.texts) :
            last.texts[k] = <<>> =>
              /\ Segments(innerHTML)[k] = <<>>
              /\ \A j \in 1..Len(results) : results[j].id # NumToString(k - 1)
       /\ Len(results) <=
            Cardinality({k \in 1..Len(last.texts) : last.texts[k] # <<>>})

\* a completion over an empty first segment and a non-empty second one
C2_Witness ==
  /\ last.type = "done"
  /\ Len(last.texts) = 2
  /\ last.texts[1] = <<>>
  /\ last.texts[2] # <<>>
  /\ Len(results) = 1

\* C3: the loading flag is true whenever some submission has dispatched its
\* calls and has not yet run its completion step.
C3_LoadingWhileInFlight == InFlight # {} => isLoading

\* the step just taken is the catch of a failed call: a fetch that rejected
\* or a body that did not parse
CallFailed == last.type = "catch" /\ last.at \in {"fetch", "json"}

\* C4: a submission with a call that failed or has not settled does not reach
\* its completion step: the chain moves on only when no call is pending, the
\* catch of a failed call publishes nothing, persists nothing and leaves the
\* loading flag alone, a failed submission stays failed, and the loading flag
\* goes back to false only in a step that completes a submission.
C4_FailedCallStallsSubmission ==
  [][/\ \A s \in 1..Len(subs) :
          /\ (subs[s].status = "fetching" /\ subs'[s].status = "parsing")
               => \A k \in 1..Len(subs[s].calls) : ~IsPending(subs[s].calls[k])
          /\ (subs[s].status # "done" /\ subs'[s].status = "done")
               => subs[s].status = "parsing"
          /\ subs[s].status = "failed" => subs'[s].status = "failed"
          /\ (CallFailed' /\ last'.sub = s)
               => /\ subs'[s].status = "failed"
                  /\ UNCHANGED <<results, userDocument, isLoading>>
     /\ (isLoading /\ ~isLoading')
          => \E s \in 1..Len(subs') :
               /\ subs'[s].status = "done"
               /\ s <= Len(subs) => subs[s].status # "done"
    ]_vars

\* a submission of two segments whose bodies were all fetched failed on a body
\* that does not parse, and loading is still true
C4_Witness ==
  /\ CallFailed
  /\ last.at = "json"
  /\ Len(last.texts) = 2
  /\ subs[last.sub].status = "failed"
  /\ isLoading

\* C5: the catch of a failed call changes nothing but the submission's own
\* status: no call is issued again, the results collection, the Document and
\* the surface stay as they are; no step of a submission other than a
\* re-rendering one writes the results collection or the Document, and the
\* start of a submission leaves the surface without highlight wrappers.
C5_FailureOnlyLogged ==
  [][/\ CallFailed'
          => /\ UNCHANGED <<innerHTML, userDocument, results, isLoading>>
             /\ Len(subs') = Len(subs)
             /\ subs'[last'.sub].calls = <<>>
             /\ \A s \in 1..Len(subs) : s # last'.sub => subs'[s] = subs[s]
     /\ (edits' = edits /\ ~Rendered') => UNCHANGED <<userDocument, results>>
     /\ Len(subs') > Len(subs)
          => /\ Count(innerHTML', SPAN_START) = 0
             /\ Count(innerHTML', SPAN_CLOSE) = 0
             /\ Segments(innerHTML') =
                  IF subs'[Len(subs')].status = "fetching"
                  THEN subs'[Len(subs')].texts
                  ELSE last'.texts
    ]_vars

\* a submission failed on a body that does not parse; the Document still has
\* the highlighted content, the surface the cleaned one
C5_Witness ==
  /\ CallFailed
  /\ last.at = "json"
  /\ Count(userDocument.content, SPAN_START) = 1
  /\ Count(innerHTML, SPAN_START) = 0
  /\ innerHTML # <<>>

\* C6: a submission is accepted while another is in flight, and after any
\* completion step the results collection and the Document's content,
\* rating and results are the values of the submission that just completed,
\* whichever was triggered first.
C6_LastCompletionWins ==
  last.type = "done" =>
    LET filtered == Filtered(Stamped(last.rs))
    IN  /\ results = filtered
        /\ userDocument =
             [content |-> Join(ReplaceMentTexts(last.texts, last.rs)),
              rating |-> Rating(filtered),
              results |-> filtered]
        /\ innerHTML = userDocument.content

\* the first of two overlapping submissions completes after the second
C6_Witness ==
  /\ last.type = "done"
  /\ last.sub = 1
  /\ Len(subs) = 2
  /\ subs[2].status = "done"
  /\ Len(results) >= 1

\* a segment of the surface without its highlight wrapper
Unwrapped(seg) ==
  IF /\ StartsAt(seg, 1, SPAN_START)
     /\ Len(seg) >= Len(SPAN_CLOSE)
     /\ StartsAt(seg, Len(seg) - Len(SPAN_CLOSE) + 1, SPAN_CLOSE)
  THEN SubSeq(seg, FirstGt(seg, 1) + 1, Len(seg) - Len(SPAN_CLOSE))
  ELSE seg

\* C7: after a completion step the surface has as many segments as the
\* submission derived, whatever was filtered out and whatever was pasted or
\* typed while its calls were in flight, and segment i without its wrapper
\* is the text of segment i that was sent.
C7_SegmentsPreserved ==
  last.type = "done" =>
    LET segs == Segments(innerHTML)
    IN  /\ Len(segs) = Len(last.texts)
        /\ \A k \in 1..Len(segs) : Unwrapped(segs[k]) = last.texts[k]

\* a completion over two segments, one without a result, after an edit of
\* the surface while the calls were in flight
C7_Witness ==
  /\ last.type = "done"
  /\ last.edited
  /\ Len(last.texts) = 2
  /\ Len(results) = 1
  /\ Count(innerHTML, SPAN_START) = 1

\* the position a published result's id names, -1 when it names none
IdPosition(r) ==
  LET named == {q \in 0..(Len(last.rs) - 1) : NumToString(q) = r.id}
  IN  IF named = {} THEN -1 ELSE Min(named)

\* C8: every entry of the results a completed submission publishes and
\* stores has as id the string form of the position of its segment, not the
\* id the endpoint returned nor its index after filtering, and the entries
\* are in increasing order of position.
C8_IdsArePositions ==
  last.type = "done" =>
    /\ userDocument.results = results
    /\ Len(results) =
         Cardinality({k \in 1..Len(last.rs) : last.rs[k].t = "obj"})
    /\ \A j \in 1..Len(results) :
         LET q == IdPosition(results[j])
         IN  /\ q >= 0
             /\ last.rs[q + 1].t = "obj"
             /\ results[j].score = last.rs[q + 1].score
             /\ results[j].details = last.rs[q + 1].details
             /\ \A i \in 1..(j - 1) : IdPosition(results[i]) < q

\* a completion whose only result is the one of the second segment
C8_Witness ==
  /\ last.type = "done"
  /\ Len(last.rs) = 2
  /\ Falsy(last.rs[1])
  /\ Len(results) = 1
  /\ results[1].id = <<"1">>

\* a number of the results in tenths
Tenths(x) == (x.num * 10) \div x.den

RECURSIVE TotalTenths(_, _)
TotalTenths(numbers, k) ==
  IF k > Len(numbers) THEN 0
  ELSE Tenths(numbers[k]) + TotalTenths(numbers, k + 1)

\* the number x is total / (10 * count) * scale
IsScaledMean(x, total, count, scale) ==
  /\ x.t = "num"
  /\ x.num * 10 * count = total * scale * x.den

\* C9: after a completed submission with at least one filtered result the
\* overall gpt (human) rating is the sum of score.gpt (score.human) over all
\* filtered results, divided by their number, times 100.
C9_OverallIsMeanOfAll ==
  (last.type = "done" /\ Len(results) >= 1) =>
    /\ IsScaledMean(userDocument.rating.gpt,
         TotalTenths([j \in 1..Len(results) |-> results[j].score.gpt], 1),
         Len(results), 100)
    /\ IsScaledMean(userDocument.rating.human,
         TotalTenths([j \in 1..Len(results) |-> results[j].score.human], 1),
         Len(results), 100)

\* the published results with a non-empty details list
Contributing == SelectSeq(results, Contributes)

\* C10: after a completed submission in which K >= 1 filtered results have
\* a non-empty details list, each sub-metric is the sum of that metric over
\* those K results, divided by K, times 10, and errorTextCount is K; nothing
\* of the previous rating is left in the bundle.
C10_SubMetricsAreMeansOfContributing ==
  (last.type = "done" /\ Len(Contributing) >= 1) =>
    LET K == Len(Contributing)
        m == userDocument.rating.metrics
    IN  /\ m.errorTextCount = K
        /\ IsScaledMean(m.coherence,
             TotalTenths([j \in 1..K |-> Contributing[j].metrics.coherence], 1),
             K, 10)
        /\ IsScaledMean(m.repetition,
             TotalTenths([j \in 1..K |-> Contributing[j].metrics.repetition], 1),
             K, 10)
        /\ IsScaledMean(m.personality,
             TotalTenths([j \in 1..K |-> Contributing[j].metrics.personality], 1),
             K, 10)
        /\ IsScaledMean(m.originality,
             TotalTenths([j \in 1..K |-> Contributing[j].metrics.originality], 1),
             K, 10)

\* the second of two completed submissions had one result with details and
\* one without
C10_Witness ==
  /\ last.type = "done"
  /\ last.sub = 2
  /\ subs[1].status = "done"
  /\ Len(results) = 2
  /\ Len(Contributing) = 1

\* the part of the surface a paste step has added
Inserted == SubSeq(innerHTML', Len(innerHTML) + 1, Len(innerHTML'))

\* C11: a paste of a text with k newline characters keeps the surface content
\* and appends to it a part with exactly k line-break markers and no other
\* tag (every "<" of the part starts a line-break marker), whatever the text
\* holds, and the content of the Document is then the surface content.
C11_PasteInsertsOnlyLineBreaks ==
  [][last'.type = "paste"
       => /\ Len(innerHTML') >= Len(innerHTML)
          /\ SubSeq(innerHTML', 1, Len(innerHTML)) = innerHTML
          /\ Count(Inserted, BR) = Count(last'.texts[1], <<"\n">>)
          /\ \A p \in 1..Len(Inserted) :
               Inserted[p] = "<" => StartsAt(Inserted, p, BR)
          /\ userDocument'.content = innerHTML'
    ]_vars

\* C12: a submission of the empty surface has no segment and issues no call;
\* its chain settles at once by the completion step, not by the catch: the
\* published results collection is empty, the Document is persisted with the
\* empty content and an empty results collection, and loading is false.
C12_EmptySubmissionCompletes ==
  [][(innerHTML = <<>> /\ Len(subs') > Len(subs))
       => /\ last'.type = "done"
          /\ last'.sub = Len(subs')
          /\ last'.texts = <<>>
          /\ last'.rs = <<>>
          /\ subs'[Len(subs')].status = "done"
          /\ InFlight' = InFlight
          /\ innerHTML' = <<>>
          /\ results' = <<>>
          /\ userDocument'.content = <<>>
          /\ userDocument'.results = <<>>
          /\ ~isLoading'
    ]_vars

\* the surface was submitted with text and completed, then emptied with
\* Backspace and submitted again
C12_Witness ==
  /\ last.type = "done"
  /\ last.sub = 2
  /\ last.texts = <<>>
  /\ subs[1].status = "done"
  /\ innerHTML = <<>>
  /\ results = <<>>
  /\ userDocument.results = <<>>
  /\ userDocument.rating.gpt = NaN
  /\ ~isLoading

\* no result of the step just taken says gpt is more than human
NoneFlagged == \A k \in 1..Len(last.rs) : ~MoreGpt(last.rs[k])

\* C13: the cleaned content C of every submission, the empty one included, is
\* what joining its segments with the line-break marker gives back, and a
\* re-rendering step in which no segment is flagged leaves on the surface
\* the cleaned content of its submission.
C13_JoinOfSplitIsContent ==
  [][/\ Len(subs') > Len(subs)
          => LET C == StripTags(innerHTML)
             IN  /\ Join(Segments(C)) = C
                 /\ C = <<>> => Segments(C) = <<>>
     /\ (Rendered' /\ NoneFlagged') => innerHTML' = last'.input
    ]_vars

\* a completion over an empty first segment and an unflagged second one left
\* the cleaned content, with its line-break marker, on the surface
C13_Witness ==
  /\ last.type = "done"
  /\ Len(last.texts) = 2
  /\ last.texts[1] = <<>>
  /\ last.rs[2] # UNDEFINED
  /\ NoneFlagged
  /\ innerHTML = last.input
  /\ Count(innerHTML, BR) = 1

\* C14: the strip of a submission is idempotent on the surface content, and
\* the stripped content holds no tag other than line-break markers: every
\* "<" in it starts a line-break marker.
C14_StripLeavesOnlyLineBreaks ==
  [][Len(subs') > Len(subs)
       => LET C == StripTags(innerHTML)
          IN  /\ StripTags(C) = C
              /\ \A p \in 1..Len(C) : C[p] = "<" => StartsAt(C, p, BR)
    ]_vars

\* C15: in every state each segment of the surface holds at most one
\* highlight wrapper, and after a re-rendering step the segment at a position
\* holds a wrapper exactly when the result of the submission that has just
\* settled flags the position, whatever was wrapped when it was submitted.
C15_WrappersNeverAccumulate ==
  LET segs == Segments(innerHTML)
  IN  /\ \A k \in 1..Len(segs) :
           /\ Count(segs[k], SPAN_START) <= 1
           /\ Count(segs[k], SPAN_CLOSE) <= 1
      /\ Rendered =>
           /\ Len(segs) = Len(last.texts)
           /\ Wrapped(innerHTML) = FlaggedPositions

\* the second of two completed submissions flags the second segment and not
\* the first, which was wrapped when it was submitted and is now bare
C15_Witness ==
  /\ last.type = "done"
  /\ last.sub = 2
  /\ subs[1].status = "done"
  /\ last.wrapped = {1}
  /\ FlaggedPositions = {2}
  /\ last.texts[1] # <<>>
  /\ Segments(innerHTML)[1] = last.texts[1]

\* a submission is started or one settles in the step
SubmissionStep ==
  \/ Len(subs') > Len(subs)
  \/ \E s \in 1..Len(subs) :
       subs[s].status = "parsing" /\ subs'[s].status \in {"done", "failed"}

\* C16: the loading flag and the results collection change only in a step of
\* the submission flow; a paste or a key (with its input event) leaves the
\* loading flag, the results collection and the rating and the results of
\* the Document as they are, starts and settles no submission, and writes
\* to the Document nothing but the content of the surface; a render of the
\* Metrics Panel changes nothing but what the panel shows.
C16_EditsAndRenderWriteNoResults ==
  [][/\ (isLoading' # isLoading \/ results' # results) => SubmissionStep
     /\ edits' # edits
          => /\ UNCHANGED <<isLoading, results, mounted, panel>>
             /\ userDocument'.rating = userDocument.rating
             /\ userDocument'.results = userDocument.results
             /\ userDocument' # userDocument
                  => userDocument'.content = innerHTML'
             /\ ~SubmissionStep
     /\ panel' # panel
          => /\ UNCHANGED <<innerHTML, mounted, userDocument, isLoading,
                            results, subs, edits>>
             /\ panel' = MetricsView(userDocument, isLoading)
    ]_vars

\* a paste after a completion that published a result and rated the Document,
\* with the panel showing the scores that completion persisted
C16_Witness ==
  /\ last.type = "paste"
  /\ results # <<>>
  /\ userDocument.results = results
  /\ userDocument.rating # InitialRating
  /\ userDocument.content = innerHTML
  /\ ~isLoading
  /\ Shown
  /\ panel.overall # ToFixed2(Zero)

\* C17: a parsed response without score, metrics or details does not abort
\* the submission: no chain ends in the catch on a throw of the highlight
\* loop or of the aggregate computation, and the results collection and the
\* results of the Document are the same in every state.
C17_MissingFieldStillCompletes ==
  /\ last.type = "catch" => last.at \notin {"loop", "forEach"}
  /\ results = userDocument.results

====
